---- MODULE Spec2Model ----
(***************************************************************************)
(* Model of the ledger handlers of src/app.py (Flask + SQLAlchemy).        *)
(*                                                                         *)
(* State: the two tables (user, transaction) and, for every request being  *)
(* served, the handler's position and local variables.  A handler runs in  *)
(* its own thread and database session; every database round trip (a       *)
(* query, a commit) is one atomic step, and steps of different requests    *)
(* interleave freely: the handlers take no lock and open no transaction    *)
(* around their read-check-write sequence.                                 *)
(*                                                                         *)
(* Amounts are whole currency units (integers); the code's floats are      *)
(* exact on them.  The 12-digit account numbers are numbered from 1.       *)
(* Login is not modelled: any row of the user table may be current_user.   *)
(* Of the columns of the user row the three unique ones are kept           *)
(* (account_number, email, username); names, dob, bvn and picture are free *)
(* text no handler reads.                                                  *)
(*                                                                         *)
(* Spec composes every handler.  SpecTransfer and SpecProfile compose      *)
(* account opening with one family of handlers each; SpecCash, SpecOutflow *)
(* and SpecChecked run one family of handlers each on two accounts that    *)
(* are open already; SpecBalance runs the balance computations over drawn  *)
(* histories; SpecTransfersFair runs transfers between the two accounts    *)
(* under weak fairness of every request's steps.                           *)
(***************************************************************************)
EXTENDS Integers, Sequences, FiniteSets

\* ------------------------------------------------------------------ bounds
\* rows the transaction table may hold
MaxTxns == 3
\* amount of the welcome deposit
WelcomeAmount == 1000

\* the workers: two requests are served at the same time
Req == {1, 2}
\* the pool random.randint draws account numbers from
AccountNumbers == {1, 2, 3}
\* numeric values the "amount" form field is submitted with
Amounts == {-1000, 1000}
\* the "amount" form field: a numeric string, or text float() rejects
FormAmounts == [numeric : {TRUE}, value : Amounts] \cup [numeric : {FALSE}, value : {0}]

VARIABLES
    users,     \* table user: users[id] is the account_number of the row with that id
    emails,    \* table user: emails[id] is the email of the row with that id
    usernames, \* table user: usernames[id] is the username of the row with that id
    txns,      \* table transaction, in id order
    req        \* per request: handler position and local variables

vars == <<users, emails, usernames, txns, req>>

\* the e-mail addresses the signup forms are submitted with; the unique
\* column keeps the user table to one row for each
Emails == {"a@x", "b@x"}
\* the username the signup and profile forms are submitted with: two users
\* asking for it collide on the unique column
Usernames == {"ada"}
\* no username: the column is NULL, the form field empty
NoName == ""

\* ------------------------------------------------------------- the tables
NoRef == 0

\* a Transaction row; description is <<text, account number referred to>>
Transaction(user_id, txn_type, amount, description) ==
    [user_id |-> user_id, txn_type |-> txn_type, amount |-> amount,
     description |-> description]

UserIds == 1..Len(users)

\* the lookup without its filter: the first row of the table whatever n is
first_unfiltered(n) ==
    IF \E u \in UserIds : users[u] = n
    THEN CHOOSE u \in UserIds : users[u] = n
    ELSE IF UserIds # {} THEN 1 ELSE 0

\* User.query.filter_by(account_number=n).first(): the id of the row, 0 for None
filter_by_account_number(n) ==
    IF \E u \in UserIds : users[u] = n
    THEN CHOOSE u \in UserIds : users[u] = n
    ELSE 0

\* no constraint at all on the column
account_number_free(n) == FALSE

\* unique=True on User.account_number: a row with the number n exists already
account_number_taken(n) == \E u \in UserIds : users[u] = n

\* User.query.filter_by(email=e).first(), and unique=True on User.email: a row
\* with the e-mail e exists
email_taken(e) == \E u \in UserIds : emails[u] = e

\* unique=True on User.username, and the query of the profile form: a row
\* other than u holds the username n (u is 0 for a row not yet stored)
username_taken(u, n) == \E v \in UserIds : v # u /\ usernames[v] = n

\* current_user.transactions: the rows of T owned by u, in id order
transactions(T, u) == SelectSeq(T, LAMBDA tx : tx.user_id = u)

\* ---------------------------------------------------------------- balance
\* one term of the generator in sum(...): tx.amount if Deposit else -tx.amount
signed(tx) == IF tx.txn_type = "Deposit" THEN tx.amount ELSE 0 - tx.amount

RECURSIVE sum(_)
\* Python's sum over a sequence of terms
sum(s) == IF s = <<>> THEN 0 ELSE sum(SubSeq(s, 1, Len(s) - 1)) + s[Len(s)]

\* the funds-check computation of withdraw, transfer and betting
balance(T, u) ==
    LET rows == transactions(T, u)
    IN  sum([i \in 1..Len(rows) |-> signed(rows[i])])

RECURSIVE total_balance_named(_, _)
\* the dashboard's loop subtracting only the kinds its comment names
total_balance_named(acc, rows) ==
    IF rows = <<>> THEN acc
    ELSE IF Head(rows).txn_type = "Deposit"
         THEN total_balance_named(acc + Head(rows).amount, Tail(rows))
         ELSE IF Head(rows).txn_type \in {"Withdrawal", "Transfer"}
         THEN total_balance_named(acc - Head(rows).amount, Tail(rows))
         ELSE total_balance_named(acc, Tail(rows))

RECURSIVE total_balance_loop(_, _)
\* the dashboard's loop body, run over the rows left to visit
total_balance_loop(acc, rows) ==
    IF rows = <<>> THEN acc
    ELSE IF Head(rows).txn_type = "Deposit"
         THEN total_balance_loop(acc + Head(rows).amount, Tail(rows))
         ELSE total_balance_loop(acc - Head(rows).amount, Tail(rows))

\* the dashboard's total_balance; its query orders the rows by date, which the
\* database sets as a row is inserted: the order of the ids
total_balance(T, u) == total_balance_loop(0, transactions(T, u))

\* --------------------------------------------------------------- requests
\* A worker's record: the handler it runs (op), where it stands (pc) and the
\* locals it still reads.  The locals die with the response: a finished
\* request keeps its outcome, and the inputs of a deposit or of a refusal.
Idle ==
    [pc |-> "idle", op |-> "none", current_user |-> 0, new_user |-> 0,
     amount |-> 0, target_account |-> 0, recipient |-> 0, new_username |-> "",
     email |-> "",
     result |-> "none"]

Init ==
    /\ users = <<>>
    /\ emails = <<>>
    /\ usernames = <<>>
    /\ txns = <<>>
    /\ req = [r \in Req |-> Idle]

\* the worker r is free to serve a new request (its last response was sent)
accepts(r) == req[r].pc \in {"idle", "done"}

\* the handler of request r returns: rec is what the response shows
Done(r, rec, outcome) ==
    req' = [req EXCEPT ![r] = [rec EXCEPT !.pc = "done", !.result = outcome]]

\* the handler of request r goes on to its next database round trip
Goto(r, rec, label) ==
    req' = [req EXCEPT ![r] = [rec EXCEPT !.pc = label]]

\* the rows written over the newest row of the table
commit_over_newest(rows) ==
    txns' = SubSeq(txns, 1, Len(txns) - 1) \o rows

\* db.session.add(...) for each row, then db.session.commit()
commit(rows) ==
    txns' = txns \o rows

\* ------------------------------------------------------------------ signup
\* welcome_txn with half the configured amount
welcome_txn_half(u) ==
    Transaction(u, "Deposit", WelcomeAmount \div 2, <<"Welcome bonus", NoRef>>)

\* the welcome row of the user with id u
welcome_txn(u) == Transaction(u, "Deposit", WelcomeAmount, <<"Welcome bonus", NoRef>>)

\* POST /signup up to the duplicate email check
SignupCheck(r) ==
    /\ accepts(r)
    /\ \E valid \in BOOLEAN, email \in Emails :
        LET rec == [Idle EXCEPT !.op = "signup"]
        IN  IF ~valid
            THEN \* email or password missing, passwords differ
                 Done(r, rec, "Rejected")
            ELSE IF email_taken(email)
            THEN Done(r, rec, "EmailRegistered")
            ELSE Goto(r, [rec EXCEPT !.email = email], "insert")
    /\ UNCHANGED <<users, emails, usernames, txns>>

\* POST /signup from the draw of the account number to the first commit: the
\* new user row.  The form fields read after the email check are drawn here.
\* Of the unique columns SQLite reports the first one that fails, in the
\* order account_number, email, username.
SignupUser(r) ==
    /\ req[r].pc = "insert"
    /\ \E known_type \in BOOLEAN, account_number \in AccountNumbers,
          username \in Usernames \cup {NoName} :
        LET rec == [Idle EXCEPT !.op = "signup"]
            email == req[r].email
        IN  IF ~known_type
            THEN \* account_type is neither "user" nor "merchant"
                 /\ Done(r, rec, "Rejected")
                 /\ UNCHANGED <<users, emails, usernames, txns>>
            ELSE IF account_number_taken(account_number)
            THEN \* unique=True on account_number: the commit raises
                 /\ Done(r, rec, "IntegrityError user.account_number")
                 /\ UNCHANGED <<users, emails, usernames, txns>>
            ELSE IF email_taken(email)
            THEN \* unique=True on email: the commit raises
                 /\ Done(r, rec, "IntegrityError user.email")
                 /\ UNCHANGED <<users, emails, usernames, txns>>
            ELSE IF username # NoName /\ username_taken(0, username)
            THEN \* unique=True on username: the commit raises
                 /\ Done(r, rec, "IntegrityError user.username")
                 /\ UNCHANGED <<users, emails, usernames, txns>>
            ELSE /\ users' = Append(users, account_number)
                 /\ emails' = Append(emails, email)
                 /\ usernames' = Append(usernames, username)
                 /\ Goto(r, [rec EXCEPT !.new_user = Len(users) + 1], "seed")
                 /\ UNCHANGED txns

\* POST /signup, second commit: the welcome deposit
SignupSeed(r) ==
    /\ req[r].pc = "seed"
    /\ commit(<<welcome_txn(req[r].new_user)>>)
    /\ Done(r, req[r], "Success")
    /\ UNCHANGED <<users, emails, usernames>>

\* ----------------------------------------------------------------- deposit
\* the deposit credited to the first row of the user table
DepositToFirst(r) ==
    /\ accepts(r)
    /\ \E u \in UserIds, f \in FormAmounts :
        LET rec == [Idle EXCEPT !.op = "deposit"]
        IN  IF ~f.numeric
            THEN /\ Done(r, rec, "InvalidAmount")
                 /\ UNCHANGED <<users, emails, usernames, txns>>
            ELSE /\ commit(<<Transaction(1, "Deposit", f.value, <<"Manual deposit", NoRef>>)>>)
                 /\ Done(r, [rec EXCEPT !.current_user = u, !.amount = f.value], "Success")
                 /\ UNCHANGED <<users, emails, usernames>>

\* POST /deposit
Deposit(r) ==
    /\ accepts(r)
    /\ \E u \in UserIds, f \in FormAmounts :
        LET rec == [Idle EXCEPT !.op = "deposit"]
        IN  IF ~f.numeric
            THEN /\ Done(r, rec, "InvalidAmount")
                 /\ UNCHANGED <<users, emails, usernames, txns>>
            ELSE /\ commit(<<Transaction(u, "Deposit", f.value, <<"Manual deposit", NoRef>>)>>)
                 /\ Done(r, [rec EXCEPT !.current_user = u, !.amount = f.value], "Success")
                 /\ UNCHANGED <<users, emails, usernames>>

\* ---------------------------------------------------------------- withdraw
\* the funds check refusing the whole balance too
insufficient_at_balance(amount, bal) == amount >= bal

\* the funds check: True when the handler refuses
insufficient(amount, bal) == amount > bal

\* the withdrawal stored before the funds check is made
WithdrawCheckLate(r) ==
    /\ accepts(r)
    /\ \E u \in UserIds, f \in FormAmounts :
        LET rec == [Idle EXCEPT !.op = "withdraw"]
        IN  /\ f.numeric
            /\ commit(<<Transaction(u, "Withdrawal", f.value, <<"Cash withdrawal", NoRef>>)>>)
            /\ IF insufficient(f.value, balance(txns, u))
               THEN Done(r, rec, "InsufficientFunds")
               ELSE Done(r, rec, "Success")
    /\ UNCHANGED <<users, emails, usernames>>

\* POST /withdraw up to the funds check
WithdrawCheck(r) ==
    /\ accepts(r)
    /\ \E u \in UserIds, f \in FormAmounts :
        LET rec == [Idle EXCEPT !.op = "withdraw"]
            run == [rec EXCEPT !.current_user = u, !.amount = f.value]
        IN  IF ~f.numeric
            THEN Done(r, rec, "InvalidAmount")
            ELSE IF insufficient(f.value, balance(txns, u))
            THEN Done(r, run, "InsufficientFunds")
            ELSE Goto(r, run, "commit")
    /\ UNCHANGED <<users, emails, usernames, txns>>

\* POST /withdraw, the commit of the Withdrawal row
WithdrawCommit(r) ==
    /\ req[r].pc = "commit"
    /\ req[r].op = "withdraw"
    /\ commit(<<Transaction(req[r].current_user, "Withdrawal", req[r].amount,
                            <<"Cash withdrawal", NoRef>>)>>)
    /\ Done(r, [Idle EXCEPT !.op = "withdraw"], "Success")
    /\ UNCHANGED <<users, emails, usernames>>

\* ---------------------------------------------------------------- transfer
\* the row on the sender u: a Transfer naming the recipient's account number
sender_txn(u, recipient, amount) ==
    Transaction(u, "Transfer", amount, <<"Transfer to", users[recipient]>>)

\* the recipient's row typed like the sender's
recipient_txn_debit(u, recipient, amount) ==
    Transaction(recipient, "Transfer", amount, <<"Transfer from", users[u]>>)

\* the row on the recipient: a Deposit naming the sender's account number
recipient_txn(u, recipient, amount) ==
    Transaction(recipient, "Deposit", amount, <<"Transfer from", users[u]>>)

\* the lookup refusing the sender's own account number
TransferLookupOthers(r) ==
    /\ accepts(r)
    /\ \E u \in UserIds, f \in FormAmounts, target \in AccountNumbers :
        LET rec == [Idle EXCEPT !.op = "transfer"]
            run == [rec EXCEPT !.current_user = u, !.amount = f.value,
                               !.target_account = target,
                               !.recipient = filter_by_account_number(target)]
        IN  IF ~f.numeric
            THEN Done(r, rec, "InvalidAmount")
            ELSE IF run.recipient = 0
            THEN Done(r, [rec EXCEPT !.target_account = target], "RecipientNotFound")
            ELSE IF run.recipient = u
            THEN Done(r, run, "SelfTransfer")
            ELSE Goto(r, run, "check")
    /\ UNCHANGED <<users, emails, usernames, txns>>

\* POST /transfer up to the recipient lookup
TransferLookup(r) ==
    /\ accepts(r)
    /\ \E u \in UserIds, f \in FormAmounts, target \in AccountNumbers :
        LET rec == [Idle EXCEPT !.op = "transfer"]
            run == [rec EXCEPT !.current_user = u, !.amount = f.value,
                               !.target_account = target,
                               !.recipient = filter_by_account_number(target)]
        IN  IF ~f.numeric
            THEN Done(r, rec, "InvalidAmount")
            ELSE IF run.recipient = 0
            THEN Done(r, [rec EXCEPT !.target_account = target], "RecipientNotFound")
            ELSE Goto(r, run, "check")
    /\ UNCHANGED <<users, emails, usernames, txns>>

\* POST /transfer, the funds check
TransferCheck(r) ==
    /\ req[r].pc = "check"
    /\ IF insufficient(req[r].amount, balance(txns, req[r].current_user))
       THEN Done(r, req[r], "InsufficientFunds")
       ELSE Goto(r, req[r], "commit")
    /\ UNCHANGED <<users, emails, usernames, txns>>

\* the transfer committing its rows one at a time, as signup does
TransferCommitTwice(r) ==
    /\ req[r].op = "transfer"
    /\ \/ /\ req[r].pc = "commit"
          /\ txns' = Append(txns, Transaction(req[r].current_user, "Transfer", req[r].amount,
                                    <<"Transfer to", users[req[r].recipient]>>))
          /\ Goto(r, req[r], "commit2")
       \/ /\ req[r].pc = "commit2"
          /\ txns' = Append(txns, Transaction(req[r].recipient, "Deposit", req[r].amount,
                                    <<"Transfer from", users[req[r].current_user]>>))
          /\ Done(r, [Idle EXCEPT !.op = "transfer"], "Success")
    /\ UNCHANGED <<users, emails, usernames>>

\* the commit waiting while a transfer out of the recipient's account is at
\* its own commit
TransferCommitWaits(r) ==
    /\ req[r].pc = "commit"
    /\ req[r].op = "transfer"
    /\ \A q \in Req \ {r} :
        ~(/\ req[q].pc = "commit" /\ req[q].op = "transfer"
          /\ req[q].current_user = req[r].recipient)
    /\ commit(<<sender_txn(req[r].current_user, req[r].recipient, req[r].amount),
                recipient_txn(req[r].current_user, req[r].recipient, req[r].amount)>>)
    /\ Done(r, [Idle EXCEPT !.op = "transfer"], "Success")
    /\ UNCHANGED <<users, emails, usernames>>

\* POST /transfer, the one commit of both rows
TransferCommit(r) ==
    /\ req[r].pc = "commit"
    /\ req[r].op = "transfer"
    /\ commit(<<sender_txn(req[r].current_user, req[r].recipient, req[r].amount),
                recipient_txn(req[r].current_user, req[r].recipient, req[r].amount)>>)
    /\ Done(r, [Idle EXCEPT !.op = "transfer"], "Success")
    /\ UNCHANGED <<users, emails, usernames>>

\* ----------------------------------------------------------------- betting
\* POST /betting up to the funds check
BettingCheck(r) ==
    /\ accepts(r)
    /\ \E u \in UserIds, f \in FormAmounts :
        LET rec == [Idle EXCEPT !.op = "betting"]
            run == [rec EXCEPT !.current_user = u, !.amount = f.value]
        IN  IF ~f.numeric
            THEN Done(r, rec, "InvalidAmount")
            ELSE IF insufficient(f.value, balance(txns, u))
            THEN Done(r, run, "InsufficientFunds")
            ELSE Goto(r, run, "commit")
    /\ UNCHANGED <<users, emails, usernames, txns>>

\* POST /betting, the commit of the Betting Funding row
BettingCommit(r) ==
    /\ req[r].pc = "commit"
    /\ req[r].op = "betting"
    /\ commit(<<Transaction(req[r].current_user, "Betting Funding", req[r].amount,
                            <<"Funded", NoRef>>)>>)
    /\ Done(r, [Idle EXCEPT !.op = "betting"], "Success")
    /\ UNCHANGED <<users, emails, usernames>>

\* ---------------------------------------------------------------- internet
\* POST /internet; price is the number the bundle text ends with after the naira sign
Internet(r) ==
    /\ accepts(r)
    /\ \E u \in UserIds, fields \in BOOLEAN, price \in FormAmounts :
        LET rec == [Idle EXCEPT !.op = "internet"]
        IN  IF ~fields
            THEN /\ Done(r, rec, "FieldsRequired")
                 /\ UNCHANGED <<users, emails, usernames, txns>>
            ELSE IF ~price.numeric
            THEN \* float() of the text after the naira sign raises, uncaught
                 /\ Done(r, rec, "ValueError")
                 /\ UNCHANGED <<users, emails, usernames, txns>>
            ELSE /\ commit(<<Transaction(u, "Data Purchase", price.value,
                                         <<"Bought", NoRef>>)>>)
                 /\ Done(r, rec, "Success")
                 /\ UNCHANGED <<users, emails, usernames>>

\* --------------------------------------------------------------- dashboard
\* GET /dashboard: reads only
Dashboard(r) ==
    /\ accepts(r)
    /\ \E u \in UserIds :
        Done(r, [Idle EXCEPT !.op = "dashboard", !.current_user = u,
                             !.amount = total_balance(txns, u)], "Success")
    /\ UNCHANGED <<users, emails, usernames, txns>>

\* ----------------------------------------------------------------- profile
\* POST /profile up to the uniqueness query on the username
ProfileCheck(r) ==
    /\ accepts(r)
    /\ \E u \in UserIds, new_username \in Usernames \cup {NoName} :
        LET run == [Idle EXCEPT !.op = "profile", !.current_user = u,
                                !.new_username = new_username]
        IN  IF new_username # NoName /\ username_taken(u, new_username)
            THEN Done(r, [Idle EXCEPT !.op = "profile"], "UsernameTaken")
            ELSE Goto(r, run, "commit")
    /\ UNCHANGED <<users, emails, usernames, txns>>

\* POST /profile: the row's fields are assigned and committed
ProfileCommit(r) ==
    /\ req[r].pc = "commit"
    /\ req[r].op = "profile"
    /\ LET u == req[r].current_user
           new_username == req[r].new_username
       IN  IF new_username = NoName
           THEN /\ Done(r, [Idle EXCEPT !.op = "profile"], "Success")
                /\ UNCHANGED usernames
           ELSE IF username_taken(u, new_username)
           THEN \* unique=True on username: the commit raises
                /\ Done(r, [Idle EXCEPT !.op = "profile"], "IntegrityError user.username")
                /\ UNCHANGED usernames
           ELSE /\ usernames' = [usernames EXCEPT ![u] = new_username]
                /\ Done(r, [Idle EXCEPT !.op = "profile"], "Success")
    /\ UNCHANGED <<users, emails, txns>>

\* the bounded specifications take the steps that leave at most MaxTxns rows
\* in the table; the handlers themselves write to a table without a limit
InTable == Len(txns') <= MaxTxns

\* every handler
Next ==
    \E r \in Req :
        \/ SignupCheck(r) /\ InTable
        \/ SignupUser(r) /\ InTable
        \/ SignupSeed(r) /\ InTable
        \/ Deposit(r) /\ InTable
        \/ WithdrawCheck(r) /\ InTable
        \/ WithdrawCommit(r) /\ InTable
        \/ TransferLookup(r) /\ InTable
        \/ TransferCheck(r) /\ InTable
        \/ TransferCommit(r) /\ InTable
        \/ BettingCheck(r) /\ InTable
        \/ BettingCommit(r) /\ InTable
        \/ Internet(r) /\ InTable
        \/ Dashboard(r) /\ InTable
        \/ ProfileCheck(r) /\ InTable
        \/ ProfileCommit(r) /\ InTable

Spec == Init /\ [][Next]_vars

\* the handlers that move money between accounts, with account opening
NextTransfer ==
    \E r \in Req :
        \/ SignupCheck(r) /\ InTable
        \/ SignupUser(r) /\ InTable
        \/ SignupSeed(r) /\ InTable
        \/ TransferLookup(r) /\ InTable
        \/ TransferCheck(r) /\ InTable
        \/ TransferCommit(r) /\ InTable

SpecTransfer == Init /\ [][NextTransfer]_vars

\* ---------------------------------------------- two accounts, opened
\* two accounts: the first holds its welcome deposit, the second holds it or
\* is between the two commits of its signup
InitTwoAccounts ==
    /\ users = <<1, 2>>
    /\ emails = <<"a@x", "b@x">>
    /\ usernames = <<NoName, NoName>>
    /\ txns \in {<<welcome_txn(1)>>, <<welcome_txn(1), welcome_txn(2)>>}
    /\ req = [r \in Req |-> Idle]

\* the cash handlers on the two accounts
NextCash ==
    \E r \in Req :
        \/ Deposit(r) /\ InTable
        \/ WithdrawCheck(r) /\ InTable
        \/ WithdrawCommit(r) /\ InTable

SpecCash == InitTwoAccounts /\ [][NextCash]_vars

\* the outflow handlers on the two accounts
NextOutflow ==
    \E r \in Req :
        \/ WithdrawCheck(r) /\ InTable
        \/ WithdrawCommit(r) /\ InTable
        \/ BettingCheck(r) /\ InTable
        \/ BettingCommit(r) /\ InTable
        \/ Internet(r) /\ InTable

SpecOutflow == InitTwoAccounts /\ [][NextOutflow]_vars

\* the handlers that check funds, on the two accounts
NextChecked ==
    \E r \in Req :
        \/ WithdrawCheck(r) /\ InTable
        \/ WithdrawCommit(r) /\ InTable
        \/ TransferLookup(r) /\ InTable
        \/ TransferCheck(r) /\ InTable
        \/ TransferCommit(r) /\ InTable
        \/ BettingCheck(r) /\ InTable
        \/ BettingCommit(r) /\ InTable

SpecChecked == InitTwoAccounts /\ [][NextChecked]_vars

\* the profile handler beside the deposits, with account opening
NextProfile ==
    \E r \in Req :
        \/ SignupCheck(r) /\ InTable
        \/ SignupUser(r) /\ InTable
        \/ SignupSeed(r) /\ InTable
        \/ Deposit(r) /\ InTable
        \/ ProfileCheck(r) /\ InTable
        \/ ProfileCommit(r) /\ InTable

SpecProfile == Init /\ [][NextProfile]_vars

\* ------------------------------------------------- balance over histories
\* longest transaction history drawn
MaxHistory == 2

\* the kinds of row the handlers write
Kinds == {"Deposit", "Withdrawal", "Transfer", "Betting Funding", "Data Purchase"}

\* rows of the two accounts 1 and 2, of every kind
HistoryRows ==
    {Transaction(u, k, a, <<"", NoRef>>) : u \in {1, 2}, k \in Kinds, a \in Amounts}

\* two accounts and any history of at most MaxHistory rows
InitBalance ==
    /\ users = <<1, 2>>
    /\ emails = <<"a@x", "b@x">>
    /\ usernames = <<NoName, NoName>>
    /\ txns \in UNION {[1..n -> HistoryRows] : n \in 0..MaxHistory}
    /\ req = [r \in Req |-> Idle]

\* the handlers' balance computations, nothing committed
NextBalance ==
    \E r \in Req :
        \/ Dashboard(r)
        \/ WithdrawCheck(r)

SpecBalance == InitBalance /\ [][NextBalance]_vars

\* ------------------------------------------------ transfers both ways
\* the transfer handler alone, each worker serving one request; the table
\* takes every row
NextTransfers ==
    \E r \in Req :
        \/ req[r].pc = "idle" /\ TransferLookup(r)
        \/ TransferCheck(r)
        \/ TransferCommit(r)

\* every request is served to its end by its own thread: a transfer that can
\* take its next step takes it
SpecTransfersFair ==
    /\ InitTwoAccounts
    /\ [][NextTransfers]_vars
    /\ \A r \in Req : WF_vars(TransferCheck(r)) /\ WF_vars(TransferCommit(r))

\* ================================================================= claims
\* the account number n belongs to no row of the user table
NoSuchAccount(n) == \A u \in UserIds : users[u] # n

\* worker r takes a step of its handler
Steps(r) == req'[r] # req[r]

\* ------------------------------------------------------------------- C1
\* C1: of the withdrawals of amount B issued concurrently against an account
\* whose balance is exactly B, exactly one succeeds: an account holding its
\* welcome deposit B and, after it, only withdrawals of B holds at most one
\* of them.
C1_ExactlyOneSucceeds ==
    \A u \in UserIds :
        LET h == transactions(txns, u)
        IN  (/\ h # <<>>
             /\ Head(h) = [user_id |-> u, txn_type |-> "Deposit", amount |-> WelcomeAmount,
                           description |-> <<"Welcome bonus", NoRef>>]
             /\ \A i \in 2..Len(h) : /\ h[i].txn_type = "Withdrawal"
                                     /\ h[i].amount = WelcomeAmount)
            => Len(h) <= 2

\* ------------------------------------------------------------------- C2
\* the row the step appends last
Appended == txns'[Len(txns')]

\* account u has been opened: its welcome deposit is committed
Opened(u) ==
    \E i \in 1..Len(txns) :
        txns[i] = [user_id |-> u, txn_type |-> "Deposit", amount |-> WelcomeAmount,
                   description |-> <<"Welcome bonus", NoRef>>]

\* C2: every outflow operation checks the funds: a request goes on to its
\* commit only with an amount the balance of its account covers as the check
\* is made, and an outflow row is appended only by the commit of such a
\* request, never by a request whose amount exceeds the balance of its
\* opened account as it is called.
C2_OutflowsCheckFunds ==
    [][\A r \in Req :
        /\ (Steps(r) /\ accepts(r) /\ req'[r].pc = "commit")
            => req'[r].amount <= balance(txns, req'[r].current_user)
        /\ (/\ Steps(r) /\ Len(txns') > Len(txns)
            /\ Appended.txn_type # "Deposit" /\ Opened(Appended.user_id))
            => \/ req[r].pc = "commit"
               \/ Appended.amount <= balance(txns, Appended.user_id)]_vars

\* ------------------------------------------------------------------- C3
\* row c is the recipient's half of the transfer whose sender's half is row d
Credits(c, d) ==
    /\ d.txn_type = "Transfer"
    /\ d.description[1] = "Transfer to"
    /\ c.txn_type = "Deposit"
    /\ c.amount = d.amount
    /\ c.description = <<"Transfer from", users[d.user_id]>>
    /\ c.user_id \in UserIds
    /\ users[c.user_id] = d.description[2]

\* C3: a transfer has contributed both of its rows or neither: every
\* Transfer row is followed at once by the Deposit row it pays, and every
\* "Transfer from" Deposit row follows at once the Transfer row paying it.
C3_TransferAtomic ==
    \A i \in 1..Len(txns) :
        /\ txns[i].txn_type = "Transfer"
            => (i < Len(txns) /\ Credits(txns[i + 1], txns[i]))
        /\ txns[i].description[1] = "Transfer from"
            => (i > 1 /\ Credits(txns[i], txns[i - 1]))

\* a transfer has committed
C3_Witness ==
    \E r \in Req, i \in 1..Len(txns) :
        /\ req[r].op = "transfer" /\ req[r].result = "Success"
        /\ txns[i].txn_type = "Transfer"

\* ------------------------------------------------------------------- C4
\* worker r commits its transfer
TransferSucceeds(r) ==
    /\ req[r].op = "transfer" /\ req[r].pc = "commit"
    /\ req'[r].pc = "done" /\ req'[r].result = "Success"

\* the balances of sender and recipient move by the amount, opposite ways
Conserves(r) ==
    /\ balance(txns', req[r].current_user)
        = balance(txns, req[r].current_user) - req[r].amount
    /\ balance(txns', req[r].recipient)
        = balance(txns, req[r].recipient) + req[r].amount

\* C4 as claimed: every transfer of an amount above 0 that succeeds, whoever
\* the recipient, lowers the sender's balance by the amount and raises the
\* recipient's by the amount.
C4_ConservationAnyRecipient ==
    [][\A r \in Req :
        (TransferSucceeds(r) /\ req[r].amount > 0) => Conserves(r)]_vars

\* C4 amended: every transfer that succeeds between two different accounts
\* lowers the sender's balance by the amount and raises the recipient's by it.
C4_Conservation ==
    [][\A r \in Req :
        (TransferSucceeds(r) /\ req[r].recipient # req[r].current_user)
        => Conserves(r)]_vars

\* a transfer between two different accounts has committed
C4_Witness ==
    \E r \in Req, i \in 1..Len(txns) :
        /\ req[r].op = "transfer" /\ req[r].result = "Success"
        /\ txns[i].txn_type = "Transfer"
        /\ txns[i].description[2] # users[txns[i].user_id]

\* ------------------------------------------------------------------- C5
RECURSIVE SumAmounts(_)
SumAmounts(rows) ==
    IF rows = <<>> THEN 0 ELSE Head(rows).amount + SumAmounts(Tail(rows))

\* the Deposit amounts of account u less the amounts of its other rows
DepositsLessOthers(T, u) ==
    SumAmounts(SelectSeq(T, LAMBDA tx : tx.user_id = u /\ tx.txn_type = "Deposit"))
    - SumAmounts(SelectSeq(T, LAMBDA tx : tx.user_id = u /\ tx.txn_type # "Deposit"))

\* C5: for every account and history the balance is the sum of its Deposit
\* amounts less the sum of the amounts of its rows of every other kind, in
\* the dashboard's computation and in the funds check alike; the dashboard
\* shows that value and a withdrawal passes the check only within it.
C5_BalanceIsDepositsLessOthers ==
    /\ \A u \in UserIds :
        /\ total_balance(txns, u) = DepositsLessOthers(txns, u)
        /\ balance(txns, u) = DepositsLessOthers(txns, u)
    /\ \A r \in Req :
        /\ req[r].op = "dashboard"
            => req[r].amount = DepositsLessOthers(txns, req[r].current_user)
        /\ (req[r].op = "withdraw" /\ req[r].pc = "commit")
            => req[r].amount <= DepositsLessOthers(txns, req[r].current_user)

\* the dashboard has shown the balance of an account holding a Deposit row
\* and a row of another kind
C5_Witness ==
    \E r \in Req :
        /\ req[r].op = "dashboard" /\ req[r].pc = "done"
        /\ \E i, j \in 1..Len(txns) :
            /\ txns[i].user_id = req[r].current_user
            /\ txns[j].user_id = req[r].current_user
            /\ txns[i].txn_type = "Deposit"
            /\ txns[j].txn_type \in {"Betting Funding", "Data Purchase"}

\* ------------------------------------------------------------------- C6
\* C6: every committed row has an amount strictly greater than 0.
C6_AmountsPositive == \A i \in 1..Len(txns) : txns[i].amount > 0

\* ------------------------------------------------------------------- C7
\* C7: once signup has completed and before any other row is on the account,
\* the account's history is the one row Deposit 1000 "Welcome bonus" and its
\* balance is 1000.
C7_FreshBalanceIsWelcome ==
    \A r \in Req :
        (/\ req[r].op = "signup" /\ req[r].result = "Success"
         /\ Len(transactions(txns, req[r].new_user)) <= 1)
        => /\ transactions(txns, req[r].new_user)
                = <<[user_id |-> req[r].new_user, txn_type |-> "Deposit", amount |-> 1000,
                     description |-> <<"Welcome bonus", NoRef>>]>>
           /\ balance(txns, req[r].new_user) = 1000

\* a signup has completed and its account holds one row
C7_Witness ==
    \E r \in Req :
        /\ req[r].op = "signup" /\ req[r].result = "Success"
        /\ Len(transactions(txns, req[r].new_user)) = 1

\* ------------------------------------------------------------------- C8
\* C8: every account of the user table, which a transfer can name as its
\* recipient, has its welcome deposit as the first row of its history.
C8_SeedWithAccount ==
    \A u \in UserIds :
        LET h == transactions(txns, u)
        IN  /\ h # <<>>
            /\ Head(h) = [user_id |-> u, txn_type |-> "Deposit", amount |-> WelcomeAmount,
                          description |-> <<"Welcome bonus", NoRef>>]

\* ------------------------------------------------------------------- C9
\* C9: a transfer to an account number no account holds ends with
\* RecipientNotFound and leaves both tables as they were.
C9_RecipientNotFound ==
    [][\A r \in Req :
        (/\ Steps(r) /\ accepts(r)
         /\ req'[r].op = "transfer"
         /\ req'[r].target_account # 0
         /\ NoSuchAccount(req'[r].target_account))
        => /\ req'[r].pc = "done"
           /\ req'[r].result = "RecipientNotFound"
           /\ txns' = txns
           /\ users' = users]_vars

\* a transfer has ended with RecipientNotFound while an account holds funds
C9_Witness ==
    \E r \in Req :
        /\ req[r].op = "transfer" /\ req[r].result = "RecipientNotFound"
        /\ \E u \in UserIds : balance(txns, u) > 0

\* ------------------------------------------------------------------ C10
\* C10: a withdraw, transfer or betting request that ends with
\* InsufficientFunds leaves both tables as they were.
C10_InsufficientCommitsNothing ==
    [][\A r \in Req :
        (Steps(r) /\ req'[r].pc = "done" /\ req'[r].result = "InsufficientFunds")
        => (txns' = txns /\ users' = users)]_vars

\* a transfer has ended with InsufficientFunds
C10_Witness ==
    \E r \in Req : req[r].op = "transfer" /\ req[r].result = "InsufficientFunds"

\* ------------------------------------------------------------------ C11
\* worker r is answered by its deposit handler
DepositAnswers(r) == Steps(r) /\ accepts(r) /\ req'[r].op = "deposit"

\* C11: a deposit with a numeric amount is never refused, whatever the
\* balance, and a deposit of an amount above 0 appends exactly one Deposit row
\* of that amount to the caller's account, raises that account's balance by
\* exactly the amount and leaves the history of every other account as it was.
C11_DepositFrame ==
    [][\A r \in Req :
        DepositAnswers(r) =>
            /\ req'[r].result \in {"Success", "InvalidAmount"}
            /\ (req'[r].result = "Success" /\ req'[r].amount > 0) =>
                LET u == req'[r].current_user
                    amount == req'[r].amount
                IN  /\ txns' = Append(txns, [user_id |-> u, txn_type |-> "Deposit",
                                             amount |-> amount,
                                             description |-> <<"Manual deposit", NoRef>>])
                    /\ balance(txns', u) = balance(txns, u) + amount
                    /\ \A v \in UserIds \ {u} :
                        transactions(txns', v) = transactions(txns, v)]_vars

\* a deposit above 0 went to the second of two accounts, whose balance before
\* it was not above 0
C11_Witness ==
    \E r \in Req :
        /\ req[r].op = "deposit" /\ req[r].result = "Success" /\ req[r].amount > 0
        /\ req[r].current_user = 2
        /\ txns # <<>>
        /\ txns[Len(txns)] = [user_id |-> 2, txn_type |-> "Deposit",
                              amount |-> req[r].amount,
                              description |-> <<"Manual deposit", NoRef>>]
        /\ balance(SubSeq(txns, 1, Len(txns) - 1), 2) <= 0

\* ------------------------------------------------------------------ C12
\* C12: no overdraft under concurrency: in every reachable state whose rows
\* all carry an amount above 0, whatever the interleaving of the requests that
\* wrote them, the balance of every account is at least 0.
C12_NoOverdraft ==
    (\A i \in 1..Len(txns) : txns[i].amount > 0)
    => \A u \in UserIds : balance(txns, u) >= 0

\* ------------------------------------------------------------------ C13
\* sequence s starts with sequence p
StartsWith(s, p) ==
    /\ Len(p) <= Len(s)
    /\ \A i \in 1..Len(p) : s[i] = p[i]

\* C13: the ledger is append-only: at every step of every handler, the
\* profile update and the refused requests included, every committed row
\* stays in its place with its owner, kind, amount and description, and the
\* history of every account only grows at its end.
C13_AppendOnly ==
    [][\/ txns' = txns
       \/ /\ StartsWith(txns', txns)
          /\ \A u \in UserIds :
               StartsWith(transactions(txns', u), transactions(txns, u))]_vars

\* a ledger of two rows or more, with a username set by a profile update and
\* a deposit just refused
C13_Witness ==
    /\ Len(txns) >= 2
    /\ \E u \in UserIds : usernames[u] # NoName
    /\ \E r, q \in Req :
        /\ req[r].op = "profile" /\ req[r].result = "Success"
        /\ req[q].op = "deposit" /\ req[q].result = "InvalidAmount"

\* ------------------------------------------------------------------ C15
\* no two rows of the user table share an account number
AccountNumbersUnique ==
    \A u, v \in UserIds : users[u] = users[v] => u = v

\* C15: account numbers are unique and immutable: after every step of every
\* handler, the profile update included, no two accounts share an account
\* number and every existing account has the number it had before the step.
C15_UniqueImmutable ==
    [][/\ AccountNumbersUnique'
       /\ \A u \in UserIds : u \in DOMAIN users' /\ users'[u] = users[u]]_vars

\* two accounts are open, a signup was refused on the unique column and a
\* profile update has set a username
C15_Witness ==
    /\ Len(users) = 2
    /\ \E u \in UserIds : usernames[u] # NoName
    /\ \E r, q \in Req :
        /\ req[r].op = "signup" /\ req[r].result = "IntegrityError user.account_number"
        /\ req[q].op = "profile" /\ req[q].result = "Success"

\* ------------------------------------------------------------------ C14
\* worker r makes the funds check of a withdrawal, a transfer or a betting
\* funding
ChecksFunds(r) ==
    /\ Steps(r)
    /\ \/ /\ accepts(r)
          /\ req'[r].op \in {"withdraw", "betting"}
          /\ req'[r].current_user # 0
       \/ req[r].op = "transfer" /\ req[r].pc = "check"

\* the check lets through every amount above 0 that the balance covers, the
\* whole balance included, and refuses only an amount above the balance
InclusiveCheck(r) ==
    LET amount == req'[r].amount
        bal == balance(txns, req'[r].current_user)
    IN  /\ (0 < amount /\ amount <= bal) => req'[r].pc = "commit"
        /\ req'[r].result = "InsufficientFunds" => amount > bal

\* worker r commits the rows of a withdrawal, a transfer or a betting funding
CommitsOutflow(r) ==
    /\ Steps(r)
    /\ req[r].pc = "commit"
    /\ req[r].op \in {"withdraw", "transfer", "betting"}

\* the request of worker r is for the whole balance of its account, as it
\* stands when the rows are committed
TakesWholeBalance(r) ==
    /\ req[r].amount > 0
    /\ req[r].amount = balance(txns, req[r].current_user)

\* C14 as claimed: the funds check lets through every amount above 0 up to
\* the balance and refuses only above it, the request then succeeds, and a
\* withdrawal, a transfer to any account or a betting funding of the whole
\* balance leaves the balance at exactly 0.
C14_BoundaryAnyRecipient ==
    [][\A r \in Req :
        /\ ChecksFunds(r) => InclusiveCheck(r)
        /\ CommitsOutflow(r) =>
            /\ req'[r].result = "Success"
            /\ TakesWholeBalance(r) => balance(txns', req[r].current_user) = 0]_vars

\* C14 amended: the funds check lets through every amount above 0 up to the
\* balance and refuses only above it, the request then succeeds, and a
\* withdrawal, a transfer to another account or a betting funding of the
\* whole balance leaves the balance at exactly 0.
C14_InclusiveBoundary ==
    [][\A r \in Req :
        /\ ChecksFunds(r) => InclusiveCheck(r)
        /\ CommitsOutflow(r) =>
            /\ req'[r].result = "Success"
            /\ (/\ TakesWholeBalance(r)
                /\ req[r].op = "transfer" => req[r].recipient # req[r].current_user)
               => balance(txns', req[r].current_user) = 0]_vars

\* an opened account stands at 0 after a withdrawal of its whole balance
C14_Witness ==
    \E r \in Req, u \in UserIds :
        /\ req[r].op = "withdraw" /\ req[r].result = "Success"
        /\ transactions(txns, u)
            = <<welcome_txn(u),
                [user_id |-> u, txn_type |-> "Withdrawal", amount |-> WelcomeAmount,
                 description |-> <<"Cash withdrawal", NoRef>>]>>
        /\ balance(txns, u) = 0

\* ------------------------------------------------------------------ C16
\* C16: account opening is collision-checked: a signup whose generated number
\* is held already draws again instead of failing, so that a signup is ended
\* by the collision only once no draw could succeed, every account number
\* being held.
C16_CollisionRetried ==
    \A r \in Req :
        (req[r].op = "signup" /\ req[r].result = "IntegrityError user.account_number")
        => \A n \in AccountNumbers : account_number_taken(n)

\* ------------------------------------------------------------------ C18
\* worker r is answered by the lookup of a transfer to the sender's own
\* account number
LooksUpSelf(r) ==
    /\ Steps(r) /\ accepts(r)
    /\ req'[r].op = "transfer"
    /\ req'[r].current_user # 0
    /\ req'[r].target_account = users[req'[r].current_user]

\* worker r makes the funds check of a transfer to the sender's own account
ChecksSelf(r) ==
    /\ Steps(r)
    /\ req[r].op = "transfer" /\ req[r].pc = "check"
    /\ req[r].recipient = req[r].current_user

\* C18: a transfer to the sender's own account number is not refused by the
\* lookup, passes the funds check whenever the amount is within the balance,
\* and on success appends a Transfer row and a Deposit row of the amount,
\* both to that account, whose balance is after the transfer what it was
\* before it.
C18_SelfTransfer ==
    [][\A r \in Req :
        /\ LooksUpSelf(r) =>
            /\ req'[r].pc = "check"
            /\ req'[r].recipient = req'[r].current_user
        /\ (ChecksSelf(r) /\ req[r].amount <= balance(txns, req[r].current_user))
            => req'[r].pc = "commit"
        /\ (TransferSucceeds(r) /\ req[r].recipient = req[r].current_user) =>
            LET u == req[r].current_user
            IN  /\ txns' = txns \o
                        <<[user_id |-> u, txn_type |-> "Transfer",
                           amount |-> req[r].amount,
                           description |-> <<"Transfer to", users[u]>>],
                          [user_id |-> u, txn_type |-> "Deposit",
                           amount |-> req[r].amount,
                           description |-> <<"Transfer from", users[u]>>]>>
                /\ balance(txns', u) = balance(txns, u)]_vars

\* an opened account has transferred its whole balance to itself
C18_Witness ==
    \E r \in Req, u \in UserIds :
        /\ req[r].op = "transfer" /\ req[r].result = "Success"
        /\ transactions(txns, u)
            = <<welcome_txn(u),
                [user_id |-> u, txn_type |-> "Transfer", amount |-> WelcomeAmount,
                 description |-> <<"Transfer to", users[u]>>],
                [user_id |-> u, txn_type |-> "Deposit", amount |-> WelcomeAmount,
                 description |-> <<"Transfer from", users[u]>>]>>

\* ------------------------------------------------------------------ C19
\* worker r commits the rows of the request it serves for its current_user
CommitsRows(r) ==
    /\ req[r].pc = "commit"
    /\ req[r].op \in {"withdraw", "transfer", "betting"}
    /\ req'[r].pc = "done"
    /\ Len(txns') > Len(txns)

\* C19: debits are confined to the invoking account: every row of an outflow
\* kind that a request commits is owned by the account the request is made
\* for, the one row it may put on another account is the Deposit row of a
\* transfer, and the balance of no other opened account is lower after the
\* commit than before it.
C19_DebitsConfined ==
    [][\A r \in Req :
        CommitsRows(r) =>
            /\ \A i \in (Len(txns) + 1)..Len(txns') :
                \/ txns'[i].user_id = req[r].current_user
                \/ /\ req[r].op = "transfer"
                   /\ txns'[i].txn_type = "Deposit"
            /\ \A v \in UserIds \ {req[r].current_user} :
                Opened(v) => balance(txns', v) >= balance(txns, v)]_vars

\* ------------------------------------------------------------------ C17
\* C17: transfers never deadlock: under fair scheduling every transfer in
\* flight, whatever else is in flight beside it, a transfer in the opposite
\* direction included, comes to its end, by its commit or by the refusal of
\* its funds check.
C17_TransfersTerminate ==
    \A r \in Req :
        (req[r].op = "transfer" /\ req[r].pc \in {"check", "commit"})
        ~> req[r].pc = "done"

\* two transfers of positive amounts in opposite directions between two
\* accounts, each covered by its sender's balance, have both passed their
\* funds check and neither has committed
C17_Witness ==
    \E r, q \in Req :
        /\ req[r].op = "transfer" /\ req[r].pc = "commit"
        /\ req[q].op = "transfer" /\ req[q].pc = "commit"
        /\ req[r].current_user # req[r].recipient
        /\ req[q].current_user = req[r].recipient
        /\ req[q].recipient = req[r].current_user
        /\ req[r].amount > 0 /\ req[q].amount > 0
        /\ req[r].amount <= balance(txns, req[r].current_user)
        /\ req[q].amount <= balance(txns, req[q].current_user)
====
